---- MODULE Spec2Model ----
(***************************************************************************)
(* Xea frontend: the job tracker (App), its poll fallback, the stream hook *)
(* it reads, the proposal form that starts a job, and the evidence panel    *)
(* that attests a finished one.                                            *)
(*                                                                         *)
(* React state is modelled by one variable per useState cell.  An action   *)
(* is one event handler or one promise continuation, together with the     *)
(* re-render it causes: the effects whose dependencies changed run inside  *)
(* the same action (Render).  Closures keep the values of the render that  *)
(* created them: a getStatus or aggregate request in flight carries the    *)
(* job id its closure captured.                                            *)
(***************************************************************************)
EXTENDS Naturals, Sequences, FiniteSets

VARIABLES
    stage,            \* App: useState<AppStage>
    proposal,         \* App: useState<IngestResponse | null>
    jobId,            \* App: useState<string | null>
    evidenceBundle,   \* App: useState<EvidenceBundle | null>
    ipfsCid,          \* App: useState<string | undefined>
    error,            \* App: useState<string | null>
    polledProgress,   \* App: useState<JobProgress | null>
    polledResponses,  \* App: useState<MinerResponse[]>
    stream,           \* what useJobStream returns, and the job it is subscribed to
    pollTimer,        \* the job id captured by the live setInterval, or NoJob
    pollsInFlight,    \* getStatus requests not yet resolved, per captured job id
    aggInFlight,      \* aggregate requests not yet resolved, per captured job id
    aggCalls,         \* aggregate requests issued so far, per job id
    liveIngest,       \* the ingest request of the mounted ProposalInput (loading)
    ingestInFlight,   \* ingest requests not yet resolved, per proposal
    validateInFlight, \* validate requests not yet resolved, per proposal
    nextJob,          \* backend: the next job id it hands out
    jobProposal,      \* backend: the proposal each job validates
    attestation,      \* EvidencePanel: useState<AttestResponse | null>
    attesting,        \* EvidencePanel: useState(false)
    attestError,      \* EvidencePanel: useState<string | null> (error)
    panelIpfsCid,     \* EvidencePanel: useState(initialCid) (ipfsCid)
    attestInFlight,   \* attest requests not yet resolved, per job id sent
    attested,         \* backend: the job ids it has attested
    dashboard,        \* LiveDashboard: its job id prop, state cells and interval
    dashPollsInFlight, \* LiveDashboard: getStatus requests not yet resolved, per job id
    dashAggInFlight,  \* LiveDashboard: aggregate requests not yet resolved, per job id
    dashAggCalls,     \* LiveDashboard: aggregate requests issued so far, per job id
    input,            \* ProposalInput: useState('') (input)
    ingestForm,       \* IngestForm: inputType, url, text and loading
    sentRequest       \* the body of the last POST /ingest, if one was sent

vars == <<stage, proposal, jobId, evidenceBundle, ipfsCid, error, polledProgress,
          polledResponses, stream, pollTimer, pollsInFlight, aggInFlight, aggCalls,
          liveIngest, ingestInFlight, validateInFlight, nextJob, jobProposal,
          attestation, attesting, attestError, panelIpfsCid, attestInFlight, attested,
          dashboard, dashPollsInFlight, dashAggInFlight, dashAggCalls,
          input, ingestForm, sentRequest>>

\* the two ingest forms and the request they send
formVars == <<input, ingestForm, sentRequest>>

-----------------------------------------------------------------------------
(* Bounds *)

MaxJobs == 2
MaxProposals == 2
MaxPolls == 2
MaxAggCalls == 2
MaxMiners == 1
MaxSnapshot == 1
MaxAttests == 2
MaxInput == 5
MaxField == 1

-----------------------------------------------------------------------------
(* Values *)

NoJob == 0
Jobs == 1..MaxJobs
NoProposal == 0
Proposals == 1..MaxProposals
MinerIds == 1..MaxMiners

\* proposal.claims: proposal p holds the claims p and p+1
ClaimsOf(p) == IF p = NoProposal THEN {} ELSE {p, p + 1}
ClaimIds == 1..(MaxProposals + 1)

AppStage == {"input", "validating", "aggregating", "complete"}
JobStatus == {"queued", "running", "completed", "failed"}

MinerResponse == [claim_id : ClaimIds, miner_id : MinerIds, verdict : {"verified"}]

NullProgress == [claims_total |-> 0, claims_validated |-> 0,
                 miners_contacted |-> 0, miners_responded |-> 0, null |-> TRUE]
Progress(ct, cv, mc, mr) == [claims_total |-> ct, claims_validated |-> cv,
                             miners_contacted |-> mc, miners_responded |-> mr,
                             null |-> FALSE]

NoBundle == [job_id |-> NoJob, claims |-> {}]
\* the evidence bundle the backend aggregates for job j
BundleOf(j, jp) == [job_id |-> j, claims |-> ClaimsOf(jp[j])]
NoCid == 0
CidOf(j) == j

\* the job id prop of the evidence panel: jobId!, which may be null
JobProps == Jobs \cup {NoJob}
NoAttestation == [job_id |-> NoJob, null |-> TRUE]
\* the attestation the backend signs for job j
AttestationOf(j) == [job_id |-> j, null |-> FALSE]

Inc(f, k) == [f EXCEPT ![k] = @ + 1]
Dec(f, k) == [f EXCEPT ![k] = @ - 1]

-----------------------------------------------------------------------------
(* useJobStream *)

EmptyResponses == [c \in ClaimIds |-> <<>>]

\* the hook's state for a new argument: one channel per job, not yet open
Subscribe(arg) ==
    [jobId |-> arg,
     phase |-> IF arg = NoJob THEN "idle" ELSE "connecting",
     minerResponses |-> EmptyResponses,
     progress |-> Progress(0, 0, 0, 0),
     status |-> "queued"]

Connected(strm) == strm.phase = "open"

\* keyed insert: an existing (claim_id, miner_id) entry is overwritten in place
InsertResponse(map, r) ==
    LET old == map[r.claim_id]
        has == \E i \in 1..Len(old) : old[i].miner_id = r.miner_id
    IN  [map EXCEPT ![r.claim_id] =
            IF has
            THEN [i \in 1..Len(old) |-> IF old[i].miner_id = r.miner_id THEN r ELSE old[i]]
            ELSE Append(old, r)]

\* const stream = useJobStream(stage === 'validating' ? jobId : null)
StreamArg(st, j) == IF st = "validating" THEN j ELSE NoJob

-----------------------------------------------------------------------------
(* App: derived values *)

\* polledResponses.reduce(...): group by claim_id, keeping the order
GroupByClaim(rs) ==
    [c \in ClaimIds |-> SelectSeq(rs, LAMBDA r : r.claim_id = c)]

\* as MinerResponsesOf, but both channels' lists are joined without a key check
MinerResponsesJoined(strm, polled) ==
    [c \in ClaimIds |-> strm.minerResponses[c] \o GroupByClaim(polled)[c]]

\* const minerResponses = stream.connected ? stream.minerResponses : new Map(...)
MinerResponsesOf(strm, polled) ==
    IF Connected(strm) THEN strm.minerResponses ELSE GroupByClaim(polled)

minerResponses == MinerResponsesOf(stream, polledResponses)

\* one claim's entry of getClaimStatuses
ClaimStatus(c, st, bundle, view) ==
    IF st = "complete" \/ c \in bundle.claims THEN "completed"
    ELSE IF Len(view[c]) > 0 THEN "validating"
    ELSE "pending"

\* getClaimStatuses(): an empty map without a proposal
ClaimStatusesOf(prop, st, bundle, view) ==
    [c \in ClaimsOf(prop) |-> ClaimStatus(c, st, bundle, view)]

getClaimStatuses == ClaimStatusesOf(proposal, stage, evidenceBundle, minerResponses)

\* as ProgressOf, but a stored poll result is shown before the stream's
ProgressPolledFirst(strm, polled, prop) ==
    IF ~polled.null THEN polled
    ELSE IF Connected(strm) THEN strm.progress
    ELSE Progress(Cardinality(ClaimsOf(prop)), 0, 0, 0)

\* as ProgressOf, but the counters of a connected stream are shown against the
\* totals of the poll result
ProgressMixed(strm, polled, prop) ==
    IF Connected(strm)
    THEN [strm.progress EXCEPT !.claims_validated = polled.claims_validated,
                               !.miners_responded = polled.miners_responded]
    ELSE IF ~polled.null THEN polled
    ELSE Progress(Cardinality(ClaimsOf(prop)), 0, 0, 0)

\* const progress = stream.connected ? stream.progress : polledProgress || {...}
ProgressOf(strm, polled, prop) ==
    IF Connected(strm) THEN strm.progress
    ELSE IF ~polled.null THEN polled
    ELSE Progress(Cardinality(ClaimsOf(prop)), 0, 0, 0)

progress == ProgressOf(stream, polledProgress, proposal)

\* LiveMinerPanel: progressPercent
ProgressPercent(prog) ==
    IF prog.miners_contacted > 0
    THEN (prog.miners_responded * 100) \div prog.miners_contacted
    ELSE 0

\* LiveMinerPanel's status prop: stream.connected ? stream.status : 'running'
LivePanelStatus(strm) == IF Connected(strm) THEN strm.status ELSE "running"

-----------------------------------------------------------------------------
(* App: the poll effect and the re-render *)

\* if (stage !== 'validating' || !jobId || stream.connected) return;
PollEffectActive(st, j, conn) == st = "validating" /\ j # NoJob /\ ~conn

\* as Render, but the effect returns no cleanup: a stale interval is never cleared
RenderNoCleanup(st, j, strm, pif) ==
    LET arg    == StreamArg(st, j)
        strm2  == IF arg # strm.jobId THEN Subscribe(arg) ELSE strm
        rerun  == <<st, j, Connected(strm2)>> # <<stage, jobId, Connected(stream)>>
        active == PollEffectActive(st, j, Connected(strm2))
    IN  /\ (rerun /\ active) => pif[j] < MaxPolls
        /\ stream' = strm2
        /\ pollTimer' = IF rerun /\ active THEN j ELSE pollTimer
        /\ pollsInFlight' = IF rerun /\ active THEN Inc(pif, j) ELSE pif

\* as Render, but a change of stream.connected alone sets no new interval
RenderNoFallback(st, j, strm, pif) ==
    LET arg    == StreamArg(st, j)
        strm2  == IF arg # strm.jobId THEN Subscribe(arg) ELSE strm
        rerun  == <<st, j, Connected(strm2)>> # <<stage, jobId, Connected(stream)>>
        active == PollEffectActive(st, j, Connected(strm2)) /\ <<st, j>> # <<stage, jobId>>
    IN  /\ (rerun /\ active) => pif[j] < MaxPolls
        /\ stream' = strm2
        /\ pollTimer' = IF rerun THEN (IF active THEN j ELSE NoJob) ELSE pollTimer
        /\ pollsInFlight' = IF rerun /\ active THEN Inc(pif, j) ELSE pif

\* as Render, but stream.connected is not among the effect's dependencies
RenderDepsWithoutStream(st, j, strm, pif) ==
    LET arg    == StreamArg(st, j)
        strm2  == IF arg # strm.jobId THEN Subscribe(arg) ELSE strm
        rerun  == <<st, j>> # <<stage, jobId>>
        active == PollEffectActive(st, j, Connected(strm2))
    IN  /\ (rerun /\ active) => pif[j] < MaxPolls
        /\ stream' = strm2
        /\ pollTimer' = IF rerun THEN (IF active THEN j ELSE NoJob) ELSE pollTimer
        /\ pollsInFlight' = IF rerun /\ active THEN Inc(pif, j) ELSE pif

\* as Render, but the effect does not test the stage
RenderAnyStage(st, j, strm, pif) ==
    LET arg    == StreamArg(st, j)
        strm2  == IF arg # strm.jobId THEN Subscribe(arg) ELSE strm
        rerun  == <<st, j, Connected(strm2)>> # <<stage, jobId, Connected(stream)>>
        active == j # NoJob /\ ~Connected(strm2)
    IN  /\ (rerun /\ active) => pif[j] < MaxPolls
        /\ stream' = strm2
        /\ pollTimer' = IF rerun THEN (IF active THEN j ELSE NoJob) ELSE pollTimer
        /\ pollsInFlight' = IF rerun /\ active THEN Inc(pif, j) ELSE pif

\* as Render, but the effect sets its interval without calling poll() at once
RenderNoFirstPoll(st, j, strm, pif) ==
    LET arg    == StreamArg(st, j)
        strm2  == IF arg # strm.jobId THEN Subscribe(arg) ELSE strm
        rerun  == <<st, j, Connected(strm2)>> # <<stage, jobId, Connected(stream)>>
        active == PollEffectActive(st, j, Connected(strm2))
    IN  /\ stream' = strm2
        /\ pollTimer' = IF rerun THEN (IF active THEN j ELSE NoJob) ELSE pollTimer
        /\ pollsInFlight' = pif

\* The render after the state cells take the values (st, j): the stream hook
\* sees its new argument, and the poll effect, when one of its dependencies
\* [stage, jobId, stream.connected] changed, clears its interval and, if
\* active, sets a new one and polls at once.  strm and pif are the stream and
\* the requests in flight as the handler left them.
Render(st, j, strm, pif) ==
    LET arg    == StreamArg(st, j)
        strm2  == IF arg # strm.jobId THEN Subscribe(arg) ELSE strm
        rerun  == <<st, j, Connected(strm2)>> # <<stage, jobId, Connected(stream)>>
        active == PollEffectActive(st, j, Connected(strm2))
    IN  /\ (rerun /\ active) => pif[j] < MaxPolls
        /\ stream' = strm2
        /\ pollTimer' = IF rerun THEN (IF active THEN j ELSE NoJob) ELSE pollTimer
        /\ pollsInFlight' = IF rerun /\ active THEN Inc(pif, j) ELSE pif

\* if (!jobId) return;   (jobId is the one the closure captured)
ValidationCompleteRuns(captured) == captured # NoJob

\* handleValidationComplete up to its await: setStage('aggregating') and the
\* aggregate request for the captured job id
HandleValidationComplete(captured, strm, pif) ==
    IF ValidationCompleteRuns(captured)
    THEN /\ aggCalls[captured] < MaxAggCalls
         /\ stage' = "aggregating"
         /\ aggInFlight' = Inc(aggInFlight, captured)
         /\ aggCalls' = Inc(aggCalls, captured)
         /\ Render("aggregating", jobId, strm, pif)
    ELSE /\ UNCHANGED <<stage, aggInFlight, aggCalls>>
         /\ Render(stage, jobId, strm, pif)

-----------------------------------------------------------------------------
(* LiveDashboard (the dashboard of the first App) *)

dashVars == <<dashboard, dashPollsInFlight, dashAggInFlight, dashAggCalls>>

NoStatus == [job_id |-> NoJob, status |-> "queued", ready_for_aggregation |-> FALSE,
             null |-> TRUE]
\* the StatusResponse of job j in status s
StatusOf(j, s) == [job_id |-> j, status |-> s, ready_for_aggregation |-> s = "completed",
                   null |-> FALSE]

\* the dashboard before App mounts it, and its state cells at mount
DashUnmounted == [jobId |-> NoJob, status |-> NoStatus, bundle |-> NoBundle,
                  error |-> "null", polling |-> TRUE, timer |-> NoJob]

\* The render after the dashboard's cells take the values d: the poll effect,
\* when one of its dependencies [jobId, polling] changed, clears its interval
\* and, if polling, polls at once and sets a new interval.
DashRender(d, pif) ==
    LET rerun == <<d.jobId, d.polling>> # <<dashboard.jobId, dashboard.polling>>
    IN  /\ (rerun /\ d.polling) => pif[d.jobId] < MaxPolls
        /\ dashboard' = [d EXCEPT !.timer = IF rerun
                                            THEN (IF d.polling THEN d.jobId ELSE NoJob)
                                            ELSE @]
        /\ dashPollsInFlight' = IF rerun /\ d.polling THEN Inc(pif, d.jobId) ELSE pif

-----------------------------------------------------------------------------
(* App: the evidence panel it mounts *)

\* {stage === 'complete' && evidenceBundle && (... <EvidencePanel .../>)}
PanelMounted(st, bundle) == st = "complete" /\ bundle # NoBundle

\* The panel after a render with the cells (st, bundle, cid): a panel that
\* stays mounted keeps its state, a panel that is mounted anew starts from its
\* initial state, and an unmounted panel has none.
RenderPanel(st, bundle, cid) ==
    IF PanelMounted(st, bundle) /\ PanelMounted(stage, evidenceBundle)
    THEN UNCHANGED <<attestation, attesting, attestError, panelIpfsCid>>
    ELSE /\ attestation' = NoAttestation
         /\ attesting' = FALSE
         /\ attestError' = "null"
         /\ panelIpfsCid' = IF PanelMounted(st, bundle) THEN cid ELSE NoCid

-----------------------------------------------------------------------------
(* The ingest forms: what they send *)

\* the characters a user types: a blank, and enough letters for "http"
Chars == {" ", "h", "t", "p"}
Http == <<"h", "t", "t", "p">>

\* String.prototype.trim
RECURSIVE TrimStart(_)
TrimStart(s) == IF s # <<>> /\ Head(s) = " " THEN TrimStart(Tail(s)) ELSE s

RECURSIVE TrimEnd(_)
TrimEnd(s) ==
    IF s # <<>> /\ s[Len(s)] = " " THEN TrimEnd(SubSeq(s, 1, Len(s) - 1)) ELSE s

Trim(s) == TrimEnd(TrimStart(s))

\* String.prototype.startsWith
StartsWith(s, prefix) == Len(s) >= Len(prefix) /\ SubSeq(s, 1, Len(prefix)) = prefix

\* a key an IngestRequest leaves out
Unset == <<"undefined">>
NoRequest == [url |-> Unset, text |-> Unset, sent |-> FALSE]
IngestRequest(url, text) == [url |-> url, text |-> text, sent |-> TRUE]

\* ProposalInput.handleSubmit: if (!input.trim()) return
ProposalInputSends(inp) == Trim(inp) # <<>>

\* ProposalInput.handleSubmit: isUrl ? { url: input.trim() } : { text: input.trim() }
ProposalInputRequest(inp) ==
    IF StartsWith(Trim(inp), Http)
    THEN IngestRequest(Trim(inp), Unset)
    ELSE IngestRequest(Unset, Trim(inp))

\* IngestForm at mount
NoIngestForm == [inputType |-> "url", url |-> <<>>, text |-> <<>>, loading |-> FALSE]

\* IngestForm.handleSubmit: inputType === 'url' ? { url } : { text }
IngestFormRequest(f) ==
    IF f.inputType = "url" THEN IngestRequest(f.url, Unset) ELSE IngestRequest(Unset, f.text)

-----------------------------------------------------------------------------
Init ==
    /\ stage = "input"
    /\ proposal = NoProposal
    /\ jobId = NoJob
    /\ evidenceBundle = NoBundle
    /\ ipfsCid = NoCid
    /\ error = "null"
    /\ polledProgress = NullProgress
    /\ polledResponses = <<>>
    /\ stream = Subscribe(NoJob)
    /\ pollTimer = NoJob
    /\ pollsInFlight = [j \in Jobs |-> 0]
    /\ aggInFlight = [j \in Jobs |-> 0]
    /\ aggCalls = [j \in Jobs |-> 0]
    /\ liveIngest = NoProposal
    /\ ingestInFlight = [p \in Proposals |-> 0]
    /\ validateInFlight = [p \in Proposals |-> 0]
    /\ nextJob = 1
    /\ jobProposal = [j \in Jobs |-> NoProposal]
    /\ attestation = NoAttestation
    /\ attesting = FALSE
    /\ attestError = "null"
    /\ panelIpfsCid = NoCid
    /\ attestInFlight = [j \in JobProps |-> 0]
    /\ attested = {}
    /\ dashboard = DashUnmounted
    /\ dashPollsInFlight = [j \in Jobs |-> 0]
    /\ dashAggInFlight = [j \in Jobs |-> 0]
    /\ dashAggCalls = [j \in Jobs |-> 0]
    /\ input = <<>>
    /\ ingestForm = NoIngestForm
    /\ sentRequest = NoRequest

-----------------------------------------------------------------------------
(* What the backend and the stream can deliver *)

SeqsUpTo(S, n) == UNION {[1..k -> S] : k \in 0..n}

\* partial_results of job j: responses to the claims of its proposal, at most
\* one per (claim_id, miner_id)
Snapshots(j) ==
    {rs \in SeqsUpTo(MinerResponse, MaxSnapshot) :
        /\ \A i \in 1..Len(rs) : rs[i].claim_id \in ClaimsOf(jobProposal[j])
        /\ \A i, k \in 1..Len(rs) :
              (rs[i].claim_id = rs[k].claim_id /\ rs[i].miner_id = rs[k].miner_id) => i = k}

\* progress of a job: two claims, MaxMiners miners contacted
ProgressSnapshots == {Progress(2, 1, MaxMiners, MaxMiners)}

\* the mounted ProposalInput is discarded when the stage leaves 'input'
FormAfter(st, li) == IF st = "input" THEN li ELSE NoProposal

-----------------------------------------------------------------------------
(* ProposalInput.handleSubmit and App.handleIngestComplete *)

RECURSIVE Sum(_, _)
Sum(f, S) == IF S = {} THEN 0 ELSE LET x == CHOOSE x \in S : TRUE IN f[x] + Sum(f, S \ {x})

\* jobs the backend has created or may still create for the requests in flight
JobsStarted == (nextJob - 1) + Sum(ingestInFlight, Proposals) + Sum(validateInFlight, Proposals)

\* handleSubmit from setLoading(true) to its await: api.ingest(request) for the
\* proposal p that the request describes
IngestIssued(p) ==
    /\ stage = "input"
    /\ liveIngest = NoProposal
    /\ JobsStarted < MaxJobs
    /\ liveIngest' = p
    /\ ingestInFlight' = Inc(ingestInFlight, p)
    /\ UNCHANGED <<stage, proposal, jobId, evidenceBundle, ipfsCid, error, polledProgress,
                   polledResponses, stream, pollTimer, pollsInFlight, aggInFlight, aggCalls,
                   validateInFlight, nextJob, jobProposal>>
    /\ RenderPanel(stage', evidenceBundle', ipfsCid')
    /\ UNCHANGED <<attestInFlight, attested, dashVars>>

\* the user submits a text (not blank) that describes proposal p
Submit(p) == IngestIssued(p) /\ UNCHANGED formVars

\* the ingest request a response belongs to: the mounted form's, or one whose
\* form is gone
IngestPending(p, live) ==
    IF live THEN liveIngest = p
    ELSE ingestInFlight[p] > (IF liveIngest = p THEN 1 ELSE 0)

\* ingest resolves: handleIngestComplete(result, true) up to its await, then
\* the form's finally
IngestOk(p, live) ==
    /\ IngestPending(p, live)
    /\ ingestInFlight' = Dec(ingestInFlight, p)
    /\ liveIngest' = IF live THEN NoProposal ELSE liveIngest
    /\ proposal' = p
    /\ error' = "null"
    /\ validateInFlight' = Inc(validateInFlight, p)
    /\ UNCHANGED <<stage, jobId, evidenceBundle, ipfsCid, polledProgress, polledResponses,
                   stream, pollTimer, pollsInFlight, aggInFlight, aggCalls,
                   nextJob, jobProposal>>
    /\ RenderPanel(stage', evidenceBundle', ipfsCid')
    /\ UNCHANGED <<attestInFlight, attested, dashVars, formVars>>

\* ingest rejects: the form's catch and finally
IngestFail(p, live) ==
    /\ IngestPending(p, live)
    /\ ingestInFlight' = Dec(ingestInFlight, p)
    /\ liveIngest' = IF live THEN NoProposal ELSE liveIngest
    /\ UNCHANGED <<stage, proposal, jobId, evidenceBundle, ipfsCid, error, polledProgress,
                   polledResponses, stream, pollTimer, pollsInFlight, aggInFlight, aggCalls,
                   validateInFlight, nextJob, jobProposal>>
    /\ RenderPanel(stage', evidenceBundle', ipfsCid')
    /\ UNCHANGED <<attestInFlight, attested, dashVars, formVars>>

\* validate resolves: setJobId(job_id); setStage('validating')
ValidateOk(p) ==
    /\ validateInFlight[p] > 0
    /\ nextJob <= MaxJobs
    /\ validateInFlight' = Dec(validateInFlight, p)
    /\ nextJob' = nextJob + 1
    /\ jobProposal' = [jobProposal EXCEPT ![nextJob] = p]
    /\ jobId' = nextJob
    /\ stage' = "validating"
    /\ liveIngest' = FormAfter("validating", liveIngest)
    /\ Render("validating", nextJob, stream, pollsInFlight)
    /\ UNCHANGED <<proposal, evidenceBundle, ipfsCid, error, polledProgress, polledResponses,
                   aggInFlight, aggCalls, ingestInFlight>>
    /\ RenderPanel(stage', evidenceBundle', ipfsCid')
    /\ UNCHANGED <<attestInFlight, attested, dashVars, formVars>>

\* validate rejects: setError(...)
ValidateFail(p) ==
    /\ validateInFlight[p] > 0
    /\ validateInFlight' = Dec(validateInFlight, p)
    /\ error' = "Failed to start validation"
    /\ UNCHANGED <<stage, proposal, jobId, evidenceBundle, ipfsCid, polledProgress,
                   polledResponses, stream, pollTimer, pollsInFlight, aggInFlight, aggCalls,
                   liveIngest, ingestInFlight, nextJob, jobProposal>>
    /\ RenderPanel(stage', evidenceBundle', ipfsCid')
    /\ UNCHANGED <<attestInFlight, attested, dashVars, formVars>>

-----------------------------------------------------------------------------
(* App: the poll loop *)

\* setInterval(poll, 2000) fires: api.getStatus(jobId) with the captured job id
PollTick ==
    /\ pollTimer # NoJob
    /\ pollsInFlight[pollTimer] < MaxPolls
    /\ pollsInFlight' = Inc(pollsInFlight, pollTimer)
    /\ UNCHANGED <<stage, proposal, jobId, evidenceBundle, ipfsCid, error, polledProgress,
                   polledResponses, stream, pollTimer, aggInFlight, aggCalls, liveIngest,
                   ingestInFlight, validateInFlight, nextJob, jobProposal>>
    /\ RenderPanel(stage', evidenceBundle', ipfsCid')
    /\ UNCHANGED <<attestInFlight, attested, dashVars, formVars>>

\* setPolledProgress(status.progress)
SetPolledProgress(old, prog) == prog
\* setPolledResponses(status.partial_results)
SetPolledResponses(old, snap) == snap
\* if (status.status === 'completed')
PollSeesCompletion(status) == status = "completed"

\* getStatus of job j resolves: the rest of poll's try block
PollOk(j, status, prog, snap) ==
    /\ pollsInFlight[j] > 0
    /\ polledProgress' = SetPolledProgress(polledProgress, prog)
    /\ polledResponses' = SetPolledResponses(polledResponses, snap)
    /\ IF PollSeesCompletion(status)
       THEN HandleValidationComplete(j, stream, Dec(pollsInFlight, j))
       ELSE /\ UNCHANGED <<stage, aggInFlight, aggCalls>>
            /\ Render(stage, jobId, stream, Dec(pollsInFlight, j))
    /\ liveIngest' = FormAfter(stage', liveIngest)
    /\ UNCHANGED <<proposal, jobId, evidenceBundle, ipfsCid, error, ingestInFlight,
                   validateInFlight, nextJob, jobProposal>>
    /\ RenderPanel(stage', evidenceBundle', ipfsCid')
    /\ UNCHANGED <<attestInFlight, attested, dashVars, formVars>>

\* as PollFail, but the failure stops the loop
PollFailStops(j) ==
    /\ pollsInFlight[j] > 0
    /\ pollsInFlight' = Dec(pollsInFlight, j)
    /\ pollTimer' = NoJob
    /\ UNCHANGED <<stage, proposal, jobId, evidenceBundle, ipfsCid, error, polledProgress,
                   polledResponses, stream, aggInFlight, aggCalls, liveIngest,
                   ingestInFlight, validateInFlight, nextJob, jobProposal>>
    /\ RenderPanel(stage', evidenceBundle', ipfsCid')
    /\ UNCHANGED <<attestInFlight, attested, dashVars, formVars>>

\* getStatus of job j rejects: console.error only
PollFail(j) ==
    /\ pollsInFlight[j] > 0
    /\ pollsInFlight' = Dec(pollsInFlight, j)
    /\ UNCHANGED <<stage, proposal, jobId, evidenceBundle, ipfsCid, error, polledProgress,
                   polledResponses, stream, pollTimer, aggInFlight, aggCalls, liveIngest,
                   ingestInFlight, validateInFlight, nextJob, jobProposal>>
    /\ RenderPanel(stage', evidenceBundle', ipfsCid')
    /\ UNCHANGED <<attestInFlight, attested, dashVars, formVars>>

-----------------------------------------------------------------------------
(* App: handleValidationComplete after its await, and handleReset *)

\* aggregate of job j resolves
AggregateOk(j) ==
    /\ aggInFlight[j] > 0
    /\ aggInFlight' = Dec(aggInFlight, j)
    /\ evidenceBundle' = BundleOf(j, jobProposal)
    /\ ipfsCid' = CidOf(j)
    /\ stage' = "complete"
    /\ liveIngest' = FormAfter("complete", liveIngest)
    /\ Render("complete", jobId, stream, pollsInFlight)
    /\ UNCHANGED <<proposal, jobId, error, polledProgress, polledResponses, aggCalls,
                   ingestInFlight, validateInFlight, nextJob, jobProposal>>
    /\ RenderPanel(stage', evidenceBundle', ipfsCid')
    /\ UNCHANGED <<attestInFlight, attested, dashVars, formVars>>

\* as AggregateFail, but the stage is left where it is
AggregateFailStuck(j) ==
    /\ aggInFlight[j] > 0
    /\ aggInFlight' = Dec(aggInFlight, j)
    /\ error' = "Failed to aggregate results"
    /\ Render(stage, jobId, stream, pollsInFlight)
    /\ UNCHANGED <<stage, proposal, jobId, evidenceBundle, ipfsCid, polledProgress,
                   polledResponses, aggCalls, liveIngest, ingestInFlight, validateInFlight,
                   nextJob, jobProposal>>
    /\ RenderPanel(stage', evidenceBundle', ipfsCid')
    /\ UNCHANGED <<attestInFlight, attested, dashVars, formVars>>

\* aggregate of job j rejects
AggregateFail(j) ==
    /\ aggInFlight[j] > 0
    /\ aggInFlight' = Dec(aggInFlight, j)
    /\ error' = "Failed to aggregate results"
    /\ stage' = "validating"
    /\ liveIngest' = FormAfter("validating", liveIngest)
    /\ Render("validating", jobId, stream, pollsInFlight)
    /\ UNCHANGED <<proposal, jobId, evidenceBundle, ipfsCid, polledProgress,
                   polledResponses, aggCalls, ingestInFlight, validateInFlight,
                   nextJob, jobProposal>>
    /\ RenderPanel(stage', evidenceBundle', ipfsCid')
    /\ UNCHANGED <<attestInFlight, attested, dashVars, formVars>>

\* the "Start Over" button, rendered when stage !== 'input'
HandleReset ==
    /\ stage # "input"
    /\ stage' = "input"
    /\ proposal' = NoProposal
    /\ jobId' = NoJob
    /\ evidenceBundle' = NoBundle
    /\ ipfsCid' = NoCid
    /\ error' = "null"
    /\ polledProgress' = NullProgress
    /\ polledResponses' = <<>>
    /\ Render("input", NoJob, stream, pollsInFlight)
    /\ UNCHANGED <<aggInFlight, aggCalls, liveIngest, ingestInFlight, validateInFlight,
                   nextJob, jobProposal>>
    /\ RenderPanel(stage', evidenceBundle', ipfsCid')
    /\ UNCHANGED <<attestInFlight, attested, dashVars, formVars>>

-----------------------------------------------------------------------------
(* useJobStream: the channel's events *)

\* the channel opens
StreamOpen ==
    /\ stream.phase = "connecting"
    /\ Render(stage, jobId, [stream EXCEPT !.phase = "open"], pollsInFlight)
    /\ UNCHANGED <<stage, proposal, jobId, evidenceBundle, ipfsCid, error, polledProgress,
                   polledResponses, aggInFlight, aggCalls, liveIngest, ingestInFlight,
                   validateInFlight, nextJob, jobProposal>>
    /\ RenderPanel(stage', evidenceBundle', ipfsCid')
    /\ UNCHANGED <<attestInFlight, attested, dashVars, formVars>>

\* transport failure or decode error: disconnected, and no retry
StreamClose ==
    /\ stream.phase \in {"connecting", "open"}
    /\ Render(stage, jobId, [stream EXCEPT !.phase = "closed"], pollsInFlight)
    /\ UNCHANGED <<stage, proposal, jobId, evidenceBundle, ipfsCid, error, polledProgress,
                   polledResponses, aggInFlight, aggCalls, liveIngest, ingestInFlight,
                   validateInFlight, nextJob, jobProposal>>
    /\ RenderPanel(stage', evidenceBundle', ipfsCid')
    /\ UNCHANGED <<attestInFlight, attested, dashVars, formVars>>

\* a miner_response message
StreamMinerResponse(r) ==
    /\ Connected(stream)
    /\ r.claim_id \in ClaimsOf(jobProposal[stream.jobId])
    /\ stream' = [stream EXCEPT !.minerResponses = InsertResponse(@, r)]
    /\ UNCHANGED <<stage, proposal, jobId, evidenceBundle, ipfsCid, error, polledProgress,
                   polledResponses, pollTimer, pollsInFlight, aggInFlight, aggCalls,
                   liveIngest, ingestInFlight, validateInFlight, nextJob,
                   jobProposal>>
    /\ RenderPanel(stage', evidenceBundle', ipfsCid')
    /\ UNCHANGED <<attestInFlight, attested, dashVars, formVars>>

\* the hook's state after a status message
SetStreamStatus(strm, status, prog) == [strm EXCEPT !.status = status, !.progress = prog]

\* if (stream.status === 'completed' && stage === 'validating'), run when
\* stream.status changed
StreamSeesCompletion(old, new, st) == new # old /\ new = "completed" /\ st = "validating"

\* a status message, and App's completion effect
StreamStatus(status, prog) ==
    /\ Connected(stream)
    /\ LET strm == SetStreamStatus(stream, status, prog)
       IN  IF StreamSeesCompletion(stream.status, status, stage)
           THEN HandleValidationComplete(jobId, strm, pollsInFlight)
           ELSE /\ UNCHANGED <<stage, aggInFlight, aggCalls>>
                /\ Render(stage, jobId, strm, pollsInFlight)
    /\ liveIngest' = FormAfter(stage', liveIngest)
    /\ UNCHANGED <<proposal, jobId, evidenceBundle, ipfsCid, error, polledProgress,
                   polledResponses, ingestInFlight, validateInFlight, nextJob,
                   jobProposal>>
    /\ RenderPanel(stage', evidenceBundle', ipfsCid')
    /\ UNCHANGED <<attestInFlight, attested, dashVars, formVars>>

-----------------------------------------------------------------------------
(* EvidencePanel *)

appVars == <<stage, proposal, jobId, evidenceBundle, ipfsCid, error, polledProgress,
             polledResponses, stream, pollTimer, pollsInFlight, aggInFlight, aggCalls,
             liveIngest, ingestInFlight, validateInFlight, nextJob, jobProposal>>

\* disabled={attesting || !!attestation}
AttestDisabled(ing, att) == ing \/ att # NoAttestation

\* the attest button: handleAttest up to its await, api.attest({job_id: jobId})
HandleAttest ==
    /\ PanelMounted(stage, evidenceBundle)
    /\ ~AttestDisabled(attesting, attestation)
    /\ attestInFlight[jobId] < MaxAttests
    /\ attesting' = TRUE
    /\ attestError' = "null"
    /\ attestInFlight' = Inc(attestInFlight, jobId)
    /\ UNCHANGED <<attestation, panelIpfsCid, attested>>
    /\ UNCHANGED <<appVars, dashVars, formVars>>

\* the mounted panel has a request in flight exactly while attesting is set
LiveAttest(j) == PanelMounted(stage, evidenceBundle) /\ attesting /\ jobId = j

\* the attest request a response belongs to: the mounted panel's, or one whose
\* panel is gone (its state updates are dropped)
AttestPending(j, live) ==
    IF live THEN LiveAttest(j)
    ELSE attestInFlight[j] > (IF LiveAttest(j) THEN 1 ELSE 0)

\* attest of job j resolves: setAttestation, setIpfsCid, finally setAttesting(false)
AttestOk(j, live) ==
    /\ AttestPending(j, live)
    /\ attestInFlight' = Dec(attestInFlight, j)
    /\ attested' = attested \cup {j}
    /\ IF live
       THEN /\ attestation' = AttestationOf(j)
            /\ panelIpfsCid' = CidOf(j)
            /\ attesting' = FALSE
            /\ UNCHANGED attestError
       ELSE UNCHANGED <<attestation, attesting, attestError, panelIpfsCid>>
    /\ UNCHANGED <<appVars, dashVars, formVars>>

\* as AttestFail, but without the finally: attesting stays set
AttestFailNoFinally(j, live) ==
    /\ AttestPending(j, live)
    /\ attestInFlight' = Dec(attestInFlight, j)
    /\ IF live
       THEN /\ attestError' = "Attestation failed"
            /\ UNCHANGED <<attestation, attesting, panelIpfsCid>>
       ELSE UNCHANGED <<attestation, attesting, attestError, panelIpfsCid>>
    /\ UNCHANGED <<appVars, attested, dashVars, formVars>>

\* attest of job j rejects: setError, finally setAttesting(false)
AttestFail(j, live) ==
    /\ AttestPending(j, live)
    /\ attestInFlight' = Dec(attestInFlight, j)
    /\ IF live
       THEN /\ attestError' = "Attestation failed"
            /\ attesting' = FALSE
            /\ UNCHANGED <<attestation, panelIpfsCid>>
       ELSE UNCHANGED <<attestation, attesting, attestError, panelIpfsCid>>
    /\ UNCHANGED <<appVars, attested, dashVars, formVars>>

-----------------------------------------------------------------------------
(* LiveDashboard: its handlers *)

panelVars == <<attestation, attesting, attestError, panelIpfsCid, attestInFlight, attested>>

\* handleValidationStart: setActiveJobId(jobId) mounts the dashboard, or hands
\* it a new job id
HandleValidationStart(j) ==
    /\ dashboard.jobId # j
    /\ DashRender([dashboard EXCEPT !.jobId = j], dashPollsInFlight)
    /\ UNCHANGED <<dashAggInFlight, dashAggCalls, appVars, panelVars, formVars>>

\* setInterval(pollStatus, 2000) fires
DashPollTick ==
    /\ dashboard.timer # NoJob
    /\ dashPollsInFlight[dashboard.timer] < MaxPolls
    /\ dashPollsInFlight' = Inc(dashPollsInFlight, dashboard.timer)
    /\ UNCHANGED <<dashboard, dashAggInFlight, dashAggCalls, appVars, panelVars, formVars>>

\* as DashPollingAfter, but only 'completed' ends the polling
DashPollingAfterCompleted(polling, s) == IF s = "completed" THEN FALSE ELSE polling

\* if (result.status === 'completed' || result.status === 'failed')
DashPollingAfter(polling, s) == IF s \in {"completed", "failed"} THEN FALSE ELSE polling

\* getStatus of job j resolves: the rest of pollStatus' try block
DashPollOk(j, s) ==
    /\ dashPollsInFlight[j] > 0
    /\ DashRender([dashboard EXCEPT !.status = StatusOf(j, s),
                                    !.polling = DashPollingAfter(@, s)],
                  Dec(dashPollsInFlight, j))
    /\ UNCHANGED <<dashAggInFlight, dashAggCalls, appVars, panelVars, formVars>>

\* getStatus of job j rejects: setError, setPolling(false)
DashPollFail(j) ==
    /\ dashPollsInFlight[j] > 0
    /\ DashRender([dashboard EXCEPT !.error = "Failed to fetch status", !.polling = FALSE],
                  Dec(dashPollsInFlight, j))
    /\ UNCHANGED <<dashAggInFlight, dashAggCalls, appVars, panelVars, formVars>>

\* the aggregate button is rendered: no error, a status, ready and no bundle
AggregateOffered(d) ==
    /\ d.jobId # NoJob
    /\ d.error = "null"
    /\ ~d.status.null
    /\ d.status.ready_for_aggregation
    /\ d.bundle = NoBundle

\* handleAggregate up to its await
HandleAggregate ==
    /\ AggregateOffered(dashboard)
    /\ dashAggCalls[dashboard.jobId] < MaxAggCalls
    /\ dashAggInFlight' = Inc(dashAggInFlight, dashboard.jobId)
    /\ dashAggCalls' = Inc(dashAggCalls, dashboard.jobId)
    /\ UNCHANGED <<dashboard, dashPollsInFlight, appVars, panelVars, formVars>>

\* aggregate of job j resolves: setBundle(result)
DashAggregateOk(j) ==
    /\ dashAggInFlight[j] > 0
    /\ dashAggInFlight' = Dec(dashAggInFlight, j)
    /\ DashRender([dashboard EXCEPT !.bundle = BundleOf(j, jobProposal)], dashPollsInFlight)
    /\ UNCHANGED <<dashAggCalls, appVars, panelVars, formVars>>

\* aggregate of job j rejects: setError
DashAggregateFail(j) ==
    /\ dashAggInFlight[j] > 0
    /\ dashAggInFlight' = Dec(dashAggInFlight, j)
    /\ DashRender([dashboard EXCEPT !.error = "Failed to aggregate results"],
                  dashPollsInFlight)
    /\ UNCHANGED <<dashAggCalls, appVars, panelVars, formVars>>

-----------------------------------------------------------------------------
(* Steps, grouped by who takes them *)

\* the user submits the same text every time
SameText == {p \in Proposals : p = 1}

FormStep ==
    \/ \E p \in SameText : Submit(p)
    \/ \E p \in Proposals, live \in BOOLEAN : IngestOk(p, live)
    \/ \E p \in Proposals, live \in BOOLEAN : IngestFail(p, live)
    \/ \E p \in Proposals : ValidateOk(p)
    \/ \E p \in Proposals : ValidateFail(p)

\* a getStatus response of job j with the given status
PollReport(j, status) ==
    /\ pollsInFlight[j] > 0
    /\ \E prog \in ProgressSnapshots, snap \in Snapshots(j) : PollOk(j, status, prog, snap)

\* a stream status message with the given status
StreamReport(status) ==
    \E prog \in ProgressSnapshots : StreamStatus(status, prog)

Next ==
    \/ FormStep
    \/ PollTick
    \/ \E j \in Jobs, s \in JobStatus : PollReport(j, s)
    \/ \E j \in Jobs : PollFail(j)
    \/ \E j \in Jobs : AggregateOk(j)
    \/ \E j \in Jobs : AggregateFail(j)
    \/ HandleReset
    \/ StreamOpen
    \/ StreamClose
    \/ \E r \in MinerResponse : StreamMinerResponse(r)
    \/ \E s \in JobStatus : StreamReport(s)

Spec == Init /\ [][Next]_vars

\* The stream reports completion first: a poll reports 'completed' only once an
\* aggregate request of the job is in flight, and aggregate does not fail.
NextStreamFirst ==
    \/ FormStep
    \/ PollTick
    \/ \E j \in Jobs, s \in JobStatus :
          (s = "completed" => aggInFlight[j] > 0) /\ PollReport(j, s)
    \/ \E j \in Jobs : PollFail(j)
    \/ \E j \in Jobs : AggregateOk(j)
    \/ HandleReset
    \/ StreamOpen
    \/ StreamClose
    \/ \E r \in MinerResponse : StreamMinerResponse(r)
    \/ \E s \in JobStatus : StreamReport(s)

SpecStreamFirst == Init /\ [][NextStreamFirst]_vars

\* The stream never opens (it may fail while connecting), and aggregate does
\* not fail.
NextPollFallback ==
    \/ FormStep
    \/ PollTick
    \/ \E j \in Jobs, s \in JobStatus : PollReport(j, s)
    \/ \E j \in Jobs : PollFail(j)
    \/ \E j \in Jobs : AggregateOk(j)
    \/ HandleReset
    \/ StreamClose

SpecPollFallback == Init /\ [][NextPollFallback]_vars

\* The tracker's first job: the form is submitted while no job was started,
\* and not again.
FirstFormStep ==
    \/ \E p \in SameText : JobsStarted = 0 /\ Submit(p)
    \/ \E p \in Proposals, live \in BOOLEAN : IngestOk(p, live)
    \/ \E p \in Proposals, live \in BOOLEAN : IngestFail(p, live)
    \/ \E p \in Proposals : ValidateOk(p)
    \/ \E p \in Proposals : ValidateFail(p)

NextFirstJob ==
    \/ FirstFormStep
    \/ PollTick
    \/ \E j \in Jobs, s \in JobStatus : PollReport(j, s)
    \/ \E j \in Jobs : PollFail(j)
    \/ \E j \in Jobs : AggregateOk(j)
    \/ \E j \in Jobs : AggregateFail(j)
    \/ HandleReset
    \/ StreamOpen
    \/ StreamClose
    \/ \E r \in MinerResponse : StreamMinerResponse(r)
    \/ \E s \in JobStatus : StreamReport(s)

SpecFirstJob == Init /\ [][NextFirstJob]_vars

\* Every submission is a new text: the k-th request carries proposal k.  The
\* stream never opens.
NewFormStep ==
    \/ \E p \in Proposals : p = JobsStarted + 1 /\ Submit(p)
    \/ \E p \in Proposals, live \in BOOLEAN : IngestOk(p, live)
    \/ \E p \in Proposals, live \in BOOLEAN : IngestFail(p, live)
    \/ \E p \in Proposals : ValidateOk(p)
    \/ \E p \in Proposals : ValidateFail(p)

NextNewProposals ==
    \/ NewFormStep
    \/ PollTick
    \/ \E j \in Jobs, s \in JobStatus : PollReport(j, s)
    \/ \E j \in Jobs : PollFail(j)
    \/ \E j \in Jobs : AggregateOk(j)
    \/ \E j \in Jobs : AggregateFail(j)
    \/ HandleReset
    \/ StreamClose

SpecNewProposals == Init /\ [][NextNewProposals]_vars

\* The tracker's first job, with the evidence panel of its result.
PanelStep ==
    \/ HandleAttest
    \/ \E j \in Jobs, live \in BOOLEAN : AttestOk(j, live)
    \/ \E j \in JobProps, live \in BOOLEAN : AttestFail(j, live)

NextEvidencePanel == NextFirstJob \/ PanelStep

SpecEvidencePanel == Init /\ [][NextEvidencePanel]_vars

DashStep ==
    \/ \E j \in Jobs : HandleValidationStart(j)
    \/ DashPollTick
    \/ \E j \in Jobs, s \in JobStatus : DashPollOk(j, s)
    \/ \E j \in Jobs : DashPollFail(j)
    \/ HandleAggregate
    \/ \E j \in Jobs : DashAggregateOk(j)
    \/ \E j \in Jobs : DashAggregateFail(j)

\* The page runs one of the two Apps: the tracker, or the App with the
\* dashboard.
TrackerUnused == JobsStarted = 0 /\ proposal = NoProposal /\ error = "null"
DashUnused == dashboard = DashUnmounted

NextApps ==
    \/ DashUnused /\ Next
    \/ TrackerUnused /\ DashStep

SpecApps == Init /\ [][NextApps]_vars

\* The happy path of the first job: ingest and validate succeed, the stream
\* opens and stays open, the stream is the first to report 'completed' (a poll
\* reports it only once aggregate was requested), aggregate succeeds and
\* nobody resets.  Every response that is awaited arrives.
HappyFormStep ==
    \/ \E p \in SameText : JobsStarted = 0 /\ Submit(p)
    \/ \E p \in Proposals : IngestOk(p, TRUE)
    \/ \E p \in Proposals : ValidateOk(p)

HappyStreamStep ==
    \/ StreamOpen
    \/ StreamReport("running")
    \/ \E r \in MinerResponse : StreamMinerResponse(r)

HappyPollStep ==
    \/ PollTick
    \/ \E j \in Jobs : PollReport(j, "running")
    \/ \E j \in Jobs : aggCalls[j] > 0 /\ PollReport(j, "completed")

HappyAggregateOk == \E j \in Jobs : AggregateOk(j)

NextHappyPath ==
    \/ HappyFormStep
    \/ HappyStreamStep
    \/ StreamReport("completed")
    \/ HappyPollStep
    \/ HappyAggregateOk

SpecHappyPath ==
    /\ Init /\ [][NextHappyPath]_vars
    /\ WF_vars(HappyFormStep)
    /\ WF_vars(StreamOpen)
    /\ WF_vars(StreamReport("completed"))
    /\ WF_vars(HappyAggregateOk)

\* The tracker with its evidence panel over several jobs and resets, the
\* stream never opening and every aggregate call succeeding.
NextPanelJobs == NextPollFallback \/ PanelStep

SpecPanelJobs == Init /\ [][NextPanelJobs]_vars

\* ProposalInput: onChange of the textarea (enabled while not loading), one
\* more character typed
SetInput(c) ==
    /\ stage = "input" /\ liveIngest = NoProposal
    /\ Len(input) < MaxInput
    /\ input' = Append(input, c)
    /\ UNCHANGED <<ingestForm, sentRequest, appVars, panelVars, dashVars>>

\* ProposalInput.handleSubmit with the text typed, up to its await
HandleSubmit ==
    /\ ProposalInputSends(input)
    /\ sentRequest' = ProposalInputRequest(input)
    /\ \E p \in SameText : IngestIssued(p)
    /\ UNCHANGED <<input, ingestForm>>

\* IngestForm: the radio buttons
SetInputType(t) ==
    /\ ingestForm.inputType # t
    /\ ingestForm' = [ingestForm EXCEPT !.inputType = t]
    /\ UNCHANGED <<input, sentRequest, appVars, panelVars, dashVars>>

\* IngestForm: onChange of the url input, shown when inputType is 'url'
SetUrl(c) ==
    /\ ingestForm.inputType = "url"
    /\ Len(ingestForm.url) < MaxField
    /\ ingestForm' = [ingestForm EXCEPT !.url = Append(@, c)]
    /\ UNCHANGED <<input, sentRequest, appVars, panelVars, dashVars>>

\* IngestForm: onChange of the textarea, shown when inputType is 'text'
SetText(c) ==
    /\ ingestForm.inputType = "text"
    /\ Len(ingestForm.text) < MaxField
    /\ ingestForm' = [ingestForm EXCEPT !.text = Append(@, c)]
    /\ UNCHANGED <<input, sentRequest, appVars, panelVars, dashVars>>

\* IngestForm.handleSubmit up to its await; the button is disabled={loading}
IngestFormSubmit ==
    /\ ~ingestForm.loading
    /\ ingestForm' = [ingestForm EXCEPT !.loading = TRUE]
    /\ sentRequest' = IngestFormRequest(ingestForm)
    /\ UNCHANGED <<input, appVars, panelVars, dashVars>>

\* IngestForm.handleSubmit after its await: finally setLoading(false)
IngestFormSettled ==
    /\ ingestForm.loading
    /\ ingestForm' = [ingestForm EXCEPT !.loading = FALSE]
    /\ UNCHANGED <<input, sentRequest, appVars, panelVars, dashVars>>

ProposalInputStep ==
    \/ \E c \in Chars : SetInput(c)
    \/ HandleSubmit

IngestFormStep ==
    \/ \E t \in {"url", "text"} : SetInputType(t)
    \/ \E c \in Chars : SetUrl(c)
    \/ \E c \in Chars : SetText(c)
    \/ IngestFormSubmit
    \/ IngestFormSettled

\* The two forms belong to the two Apps: a behaviour fills in one of them.
ProposalInputUnused == input = <<>> /\ liveIngest = NoProposal
IngestFormUnused == ingestForm = NoIngestForm /\ ~sentRequest.sent

NextForms ==
    \/ IngestFormUnused /\ ProposalInputStep
    \/ ProposalInputUnused /\ IngestFormStep

SpecForms == Init /\ [][NextForms]_vars

TypeOK ==
    /\ stage \in AppStage
    /\ jobId \in Jobs \cup {NoJob}
    /\ pollTimer \in Jobs \cup {NoJob}

-----------------------------------------------------------------------------
(* Helpers of the properties *)

InSeq(x, sq) == \E i \in 1..Len(sq) : sq[i] = x

\* entries of miner r.miner_id in the view's list of claim r.claim_id
Entries(view, r) ==
    Cardinality({i \in 1..Len(view[r.claim_id]) : view[r.claim_id][i].miner_id = r.miner_id})

\* a getStatus request is issued in this step
GetStatusIssued(j) == pollsInFlight'[j] > pollsInFlight[j]

\* an aggregate request is issued in this step
AggregateIssued(j) == aggCalls'[j] > aggCalls[j]

-----------------------------------------------------------------------------
(* C1: for every job id the tracker issues the aggregate request at most     *)
(* once, whatever the interleaving of stream events, poll responses,         *)
(* aggregate outcomes and resets.                                            *)
C1_AggregateAtMostOnce == \A j \in Jobs : aggCalls[j] <= 1

(* C2: when the stream has reported 'completed' and the aggregate request    *)
(* it triggered is still in flight, a 'completed' poll response for the same *)
(* job is dropped: it issues no aggregate request and moves no stage.        *)
(* (Under SpecStreamFirst the request in flight was triggered by the         *)
(* stream.)                                                                  *)
C2_SecondSignalDropped ==
    [][\A j \in Jobs :
          (aggInFlight[j] > 0 /\ PollReport(j, "completed"))
              => (~AggregateIssued(j) /\ stage' = stage)]_vars

(* C3: with the stream never connected, once poll responses have reported    *)
(* 'completed' for a job, exactly one aggregate request has been made for    *)
(* it, however many getStatus requests were outstanding.                     *)
C3_PollFallbackExactlyOnce == \A j \in Jobs : aggCalls[j] >= 1 => aggCalls[j] = 1

(* C4: after a reset issued while validating (the tracker is back in input   *)
(* with no job, and no aggregate was ever requested), a late poll response   *)
(* of the old job changes no tracker state and triggers no aggregate.        *)
C4_LatePollIgnored ==
    [][\A j \in Jobs :
          (/\ stage = "input" /\ jobId = NoJob
           /\ \A k \in Jobs : aggCalls[k] = 0
           /\ \E s \in JobStatus : PollReport(j, s))
              => (/\ UNCHANGED <<stage, jobId, polledProgress, polledResponses,
                                 evidenceBundle, error>>
                  /\ ~AggregateIssued(j))]_vars

(* C5: after a reset issued while an aggregate request was in flight (the    *)
(* tracker is back in input with no job), the response of that request,      *)
(* success or failure, leaves stage, evidenceBundle, ipfsCid and error       *)
(* as they are.                                                              *)
C5_LateAggregateIgnored ==
    [][\A j \in Jobs :
          (/\ stage = "input" /\ jobId = NoJob
           /\ (AggregateOk(j) \/ AggregateFail(j)))
              => UNCHANGED <<stage, evidenceBundle, ipfsCid, error>>]_vars

(* C6: reset leaves the tracker in stage input with job id, proposal,        *)
(* evidence bundle, content-address, error, polled progress and polled       *)
(* responses cleared, no poll timer and a null job id handed to the stream   *)
(* hook; while the tracker stays reset no getStatus is issued; and a         *)
(* getStatus request is only ever issued for the current job id of a         *)
(* tracker that is validating, so none follows a reset until a new job       *)
(* enters validating.                                                        *)
C6_ResetClearsAndStops ==
    [][/\ HandleReset =>
            (/\ stage' = "input" /\ jobId' = NoJob /\ proposal' = NoProposal
             /\ evidenceBundle' = NoBundle /\ ipfsCid' = NoCid /\ error' = "null"
             /\ polledProgress' = NullProgress /\ polledResponses' = <<>>
             /\ pollTimer' = NoJob
             /\ stream'.jobId = NoJob)
       /\ (stage = "input" /\ jobId = NoJob /\ stage' = "input")
              => (pollTimer' = NoJob /\ \A j \in Jobs : ~GetStatusIssued(j))
       /\ \A j \in Jobs :
              GetStatusIssued(j) => (stage' = "validating" /\ jobId' = j)]_vars

\* a reset tracker with a getStatus and an aggregate request of the old job
\* still in flight
C6_Witness ==
    /\ stage = "input" /\ jobId = NoJob /\ proposal = NoProposal
    /\ nextJob > 1
    /\ \E j \in Jobs : pollsInFlight[j] > 0 /\ aggInFlight[j] > 0

(* C7: a status report of stage 'failed' for the tracked job puts the        *)
(* tracker in a terminal failed stage and stops the poll loop.               *)
C7_FailedIsTerminal ==
    [][\A j \in Jobs :
          (/\ stage = "validating" /\ jobId = j
           /\ \/ PollReport(j, "failed")
              \/ (stream.jobId = j /\ StreamReport("failed")))
              => (stage' = "failed" /\ pollTimer' = NoJob
                  /\ \A k \in Jobs : ~GetStatusIssued(k))]_vars

(* C8: every response of the latest poll result is in the view handed to     *)
(* the claim table and the live panel, also while the stream is connected.   *)
C8_PolledResponsesInView ==
    \A i \in 1..Len(polledResponses) :
        InSeq(polledResponses[i], minerResponses[polledResponses[i].claim_id])

(* C9: the view holds at most one response per (claim, miner).  Right after *)
(* a response is delivered a second time across the channels (by the stream  *)
(* when the poll result holds it, or inside a poll snapshot when the         *)
(* stream's map holds it) the view holds exactly one entry for it; and when  *)
(* two successive poll snapshots hold it, the list built from the poll       *)
(* result holds exactly one entry for it.                                    *)
\* a getStatus request resolves in this step and leaves r in the poll result
\* (a rejected request leaves what an equal snapshot would leave)
PollDelivers(r) ==
    /\ \E j \in Jobs : pollsInFlight'[j] < pollsInFlight[j]
    /\ InSeq(r, polledResponses')

C9_OneEntryPerMiner ==
    /\ [](\A r \in MinerResponse : Entries(minerResponses, r) <= 1)
    /\ [][\A r \in MinerResponse :
             /\ (InSeq(r, polledResponses) /\ StreamMinerResponse(r))
                    => Entries(minerResponses', r) = 1
             /\ (InSeq(r, stream.minerResponses[r.claim_id]) /\ PollDelivers(r))
                    => Entries(minerResponses', r) = 1
             /\ (InSeq(r, polledResponses) /\ PollDelivers(r))
                    => Entries(GroupByClaim(polledResponses'), r) = 1]_vars

\* the stream's map and the poll result hold the same response, shown once
C9_Witness ==
    \E r \in MinerResponse :
        /\ Connected(stream)
        /\ InSeq(r, stream.minerResponses[r.claim_id])
        /\ InSeq(r, polledResponses)
        /\ Entries(minerResponses, r) = 1

(* C10: feeding a response that the poll result already holds once more, by  *)
(* the stream, leaves the view as it was after the first feeding.            *)
C10_RefeedKeepsView ==
    [][\A r \in MinerResponse :
          (InSeq(r, polledResponses) /\ StreamMinerResponse(r))
              => minerResponses' = minerResponses]_vars

(* C11: merging is commutative: for any two poll snapshots of a job that are *)
(* both outstanding while the stream is not connected, the view is the same  *)
(* whichever of the two responses is processed first.                        *)
\* the view after the poll results s1 and then s2 were stored
ViewAfterPolls(s1, s2) ==
    MinerResponsesOf(stream,
        SetPolledResponses(SetPolledResponses(polledResponses, s1), s2))

C11_MergeCommutes ==
    \A j \in Jobs :
        (pollsInFlight[j] >= 2 /\ jobId = j /\ stage = "validating" /\ ~Connected(stream))
            => \A s1, s2 \in Snapshots(j) : ViewAfterPolls(s1, s2) = ViewAfterPolls(s2, s1)

(* C12: within one job (no step that resets the tracker or changes the job  *)
(* id), a claim whose derived status is completed does not become            *)
(* validating or pending, whatever event follows.                            *)
C12_CompletedStays ==
    [][\A c \in ClaimIds :
          (/\ c \in DOMAIN getClaimStatuses
           /\ getClaimStatuses[c] = "completed"
           /\ ~HandleReset /\ jobId # NoJob /\ jobId' = jobId
           /\ c \in DOMAIN getClaimStatuses')
              => getClaimStatuses'[c] = "completed"]_vars

(* C13: no two attest requests for the same job are outstanding at once.     *)
C13_OneAttestInFlight == \A j \in Jobs : attestInFlight[j] <= 1

(* C14: once an attest request for a job has returned successfully, no       *)
(* further attest request is issued for that job.                            *)
C14_NoAttestAfterSuccess ==
    [][\A j \in Jobs :
          j \in attested => attestInFlight'[j] <= attestInFlight[j]]_vars

(* C15: whenever the stage is complete, jobId is set and the stored bundle   *)
(* and content-address are those the aggregate response of that job          *)
(* returned; and the stage becomes complete only by a successful aggregate   *)
(* response received while the stage is aggregating.                         *)
C15_CompleteHoldsOwnBundle ==
    /\ [](stage = "complete" =>
             (/\ jobId # NoJob
              /\ evidenceBundle = BundleOf(jobId, jobProposal)
              /\ ipfsCid = CidOf(jobId)))
    /\ [][(stage' = "complete" /\ stage # "complete")
             => (stage = "aggregating" /\ \E j \in Jobs : AggregateOk(j))]_vars

(* C16: when the aggregate request of the tracked job fails while the stage  *)
(* is aggregating, the stage returns to validating, the error message is     *)
(* set and no evidence bundle is stored; and after such a failure a          *)
(* completion signal for the same job (a 'completed' poll response, or the   *)
(* stream's status becoming 'completed') issues a new aggregate request.     *)
C16_AggregateFailureRetries ==
    [][\A j \in Jobs :
          /\ (stage = "aggregating" /\ jobId = j /\ AggregateFail(j))
                 => (/\ stage' = "validating"
                     /\ error' = "Failed to aggregate results"
                     /\ evidenceBundle' = evidenceBundle)
          /\ (/\ stage = "validating" /\ jobId = j
              /\ error = "Failed to aggregate results"
              /\ \/ PollReport(j, "completed")
                 \/ (stream.status # "completed" /\ StreamReport("completed")))
                 => (AggregateIssued(j) /\ stage' = "aggregating")]_vars

\* the only aggregate request of the tracked job failed: validating again,
\* with the error and without a bundle
C16_Witness ==
    /\ stage = "validating" /\ jobId # NoJob
    /\ error = "Failed to aggregate results"
    /\ evidenceBundle = NoBundle
    /\ aggCalls[jobId] = 1 /\ aggInFlight[jobId] = 0

(* C17: every change of the stage is input -> validating, validating ->      *)
(* aggregating, aggregating -> complete, aggregating -> validating,          *)
(* validating or aggregating -> failed, or a reset to input.                 *)
StageMoves ==
    {<<"input", "validating">>, <<"validating", "aggregating">>,
     <<"aggregating", "complete">>, <<"aggregating", "validating">>,
     <<"validating", "failed">>, <<"aggregating", "failed">>}

C17_StageMoves ==
    [][stage' # stage => (<<stage, stage'>> \in StageMoves \/ HandleReset)]_vars

(* C18: while the stage is validating with a job id and the stream is not    *)
(* connected, the poll interval of that job is set; and the step that makes  *)
(* this so (the stream disconnects, or validation starts with no stream)     *)
(* issues a getStatus request for the job.                                   *)
C18_FallbackActive ==
    /\ [](PollEffectActive(stage, jobId, Connected(stream)) => pollTimer = jobId)
    /\ [][(/\ PollEffectActive(stage', jobId', Connected(stream'))
           /\ (~PollEffectActive(stage, jobId, Connected(stream)) \/ jobId' # jobId))
             => GetStatusIssued(jobId')]_vars

\* the stream was connected (it delivered a response) and is closed: the poll
\* loop of the job runs
C18_Witness ==
    /\ stage = "validating" /\ jobId # NoJob
    /\ stream.phase = "closed"
    /\ \E c \in ClaimIds : Len(stream.minerResponses[c]) > 0
    /\ pollTimer = jobId

(* C19: the step that sets a poll interval (App's or LiveDashboard's) issues *)
(* exactly one getStatus request for its job at once, and every tick of an   *)
(* interval issues exactly one more.                                         *)
C19_ImmediatePoll ==
    [][/\ (pollTimer' # NoJob /\ pollTimer' # pollTimer)
              => pollsInFlight' = Inc(pollsInFlight, pollTimer')
       /\ PollTick => pollsInFlight' = Inc(pollsInFlight, pollTimer)
       /\ (dashboard'.timer # NoJob /\ dashboard'.timer # dashboard.timer)
              => dashPollsInFlight' = Inc(dashPollsInFlight, dashboard'.timer)
       /\ DashPollTick
              => dashPollsInFlight' = Inc(dashPollsInFlight, dashboard.timer)]_vars

\* the dashboard's loop has polled at once and on a tick
C19_Witness ==
    /\ dashboard.timer # NoJob
    /\ dashboard.status.null
    /\ dashPollsInFlight[dashboard.timer] = 2

(* C20: a getStatus request of App's poll loop that fails leaves stage,      *)
(* jobId, polled progress and polled responses as they are and leaves the    *)
(* interval as it is; if it is the failed request's, its next tick can      *)
(* issue getStatus.                                                          *)
C20_PollFailureIsTransient ==
    [][\A j \in Jobs :
          PollFail(j) => (/\ UNCHANGED <<stage, jobId, polledProgress, polledResponses>>
                          /\ pollTimer' = pollTimer
                          /\ (pollTimer' = j => pollsInFlight'[j] < MaxPolls))]_vars

\* the first job's immediate getStatus failed (no poll result was stored) and
\* its interval is still set
C20_Witness ==
    /\ stage = "validating" /\ jobId = 1 /\ pollTimer = 1
    /\ pollsInFlight[1] = 0
    /\ polledProgress = NullProgress

(* C21: a tick of a poll loop (App's or LiveDashboard's) issues no new       *)
(* getStatus while an earlier getStatus of the same job is unresolved.       *)
C21_TickSkipsWhileOutstanding ==
    [][/\ PollTick => pollsInFlight[pollTimer] = 0
       /\ DashPollTick => dashPollsInFlight[dashboard.timer] = 0]_vars

C23_CounterBounds ==
    /\ progress.miners_responded <= progress.miners_contacted
    /\ progress.claims_validated <= progress.claims_total
    /\ ProgressPercent(progress) <= 100

\* the stream delivered a progress and closed, no poll result is stored: the
\* default is shown
C23_Witness ==
    /\ stage = "validating"
    /\ stream.phase = "closed"
    /\ stream.progress.claims_total > 0
    /\ polledProgress.null
    /\ progress = Progress(Cardinality(ClaimsOf(proposal)), 0, 0, 0)

(* C24: on the happy path, once validation has started the tracker           *)
(* eventually reaches stage complete with the bundle of its job stored, and  *)
(* aggregate is requested at most once for the job.                          *)
C24_HappyPath ==
    /\ [](stage = "validating" =>
             <>(stage = "complete" /\ evidenceBundle = BundleOf(jobId, jobProposal)))
    /\ [](\A j \in Jobs : aggCalls[j] <= 1)

\* the liveness half of C24 alone
C24_EventuallyComplete ==
    [](stage = "validating" =>
          <>(stage = "complete" /\ evidenceBundle = BundleOf(jobId, jobProposal)))

(* C25: the stage leaves input only in the step that handles a successful    *)
(* startValidation response, and that step stores the new job id; a failed   *)
(* startValidation leaves stage, job id, poll loop and stream subscription   *)
(* as they were and sets the error message.                                  *)
ValidateResolved == nextJob' = nextJob + 1

ValidateRejected ==
    /\ nextJob' = nextJob
    /\ \E p \in Proposals : validateInFlight'[p] < validateInFlight[p]

C25_LeavesInputOnValidate ==
    /\ [][(stage = "input" /\ stage' # "input") =>
              (ValidateResolved /\ stage' = "validating" /\ jobId' = nextJob)]_vars
    /\ [][ValidateRejected =>
              /\ stage' = stage /\ jobId' = jobId
              /\ pollTimer' = pollTimer /\ pollsInFlight' = pollsInFlight
              /\ stream' = stream
              /\ error' = "Failed to start validation"]_vars

(* C26: once a job id is set it does not change until a reset clears it.     *)
C26_OneJobTracked ==
    [][(jobId # NoJob /\ jobId' # jobId) => (jobId' = NoJob /\ stage' = "input")]_vars

(* C27: from one state with stage validating or aggregating to the next,     *)
(* the claim identifiers of the tracked proposal are the same.               *)
C27_ClaimSetFixed ==
    [][(/\ stage \in {"validating", "aggregating"}
        /\ stage' \in {"validating", "aggregating"}) =>
          ClaimsOf(proposal') = ClaimsOf(proposal)]_vars

(* C28: getClaimStatuses has an entry for exactly the claims of the          *)
(* proposal; a claim found in the stored bundle is completed; and once the   *)
(* tracked job is reported completed (by its stream or by one of its polls)  *)
(* every claim of the proposal is completed.                                 *)
TrackedJobReportedCompleted ==
    /\ stage = "validating" /\ stage' = "aggregating"
    /\ jobId # NoJob /\ jobId' = jobId
    /\ \A j \in Jobs \ {jobId} : pollsInFlight'[j] = pollsInFlight[j]

C28_ClaimStatuses ==
    /\ [](DOMAIN getClaimStatuses = ClaimsOf(proposal))
    /\ [](\A c \in ClaimsOf(proposal) :
             c \in evidenceBundle.claims => getClaimStatuses[c] = "completed")
    /\ [][TrackedJobReportedCompleted =>
             \A c \in ClaimsOf(proposal') : getClaimStatuses'[c] = "completed"]_vars

(* C29: when a poll of the tracked job answers with status s and the live    *)
(* panel is then shown with the stream not connected, the status handed to   *)
(* the panel is s.                                                           *)
C29_PanelStatusFromPoll ==
    [][\A s \in JobStatus :
          (/\ jobId # NoJob
           /\ PollReport(jobId, s)
           /\ stage' = "validating" /\ proposal' # NoProposal
           /\ ~Connected(stream')) =>
             LivePanelStatus(stream') = s]_vars

(* C30: a step that issues attest for job j happens only after an aggregate  *)
(* call for job j has returned its bundle.                                   *)
AggregateSucceeded(j) == aggCalls[j] > aggInFlight[j]

C30_AttestAfterAggregate ==
    [][\A j \in Jobs :
          attestInFlight'[j] > attestInFlight[j] => AggregateSucceeded(j)]_vars

(* C31: a step that issues aggregate for job j handles a completed report    *)
(* for job j (a poll response of j, or a status message on the stream of j), *)
(* and j is the job id the tracker holds at that moment.                     *)
CompletedReportFor(j) ==
    \/ pollsInFlight'[j] < pollsInFlight[j]
    \/ Connected(stream) /\ stream.jobId = j /\ stream.status # "completed"

C31_AggregateForCurrentJob ==
    /\ [][\A j \in Jobs : AggregateIssued(j) => CompletedReportFor(j)]_vars
    /\ [][\A j \in Jobs : AggregateIssued(j) => jobId = j]_vars

\* the first half of C31 alone
C31_AggregateAfterReport ==
    [][\A j \in Jobs : AggregateIssued(j) => CompletedReportFor(j)]_vars

(* C32: while the stage is input, aggregating or complete no poll interval   *)
(* is set, and a step that issues a getStatus request ends in the            *)
(* validating stage.                                                         *)
C32_PollStopsOutsideValidating ==
    /\ [](stage \in {"input", "aggregating", "complete"} => pollTimer = NoJob)
    /\ [][\A j \in Jobs : GetStatusIssued(j) => stage' = "validating"]_vars

\* the tracker has left validating with a getStatus request of its job unresolved
C32_Witness ==
    /\ stage = "aggregating" /\ jobId # NoJob
    /\ pollsInFlight[jobId] > 0
    /\ pollTimer = NoJob

(* C33: in LiveDashboard, the step that handles a getStatus response with    *)
(* status completed or failed leaves polling off with no interval set, and   *)
(* from a state with polling off no getStatus request is issued and polling  *)
(* stays off.                                                                *)
TerminalStatus == {"completed", "failed"}

DashTerminalReport(j) ==
    /\ dashPollsInFlight'[j] < dashPollsInFlight[j]
    /\ dashboard'.status # dashboard.status
    /\ \E s \in TerminalStatus : dashboard'.status = StatusOf(j, s)

DashGetStatusIssued(j) == dashPollsInFlight'[j] > dashPollsInFlight[j]

C33_DashStopsOnTerminal ==
    /\ [][\A j \in Jobs : DashTerminalReport(j) =>
             (~dashboard'.polling /\ dashboard'.timer = NoJob)]_vars
    /\ [][~dashboard.polling =>
             (~dashboard'.polling /\ \A j \in Jobs : ~DashGetStatusIssued(j))]_vars

\* polling ended by a failed report while an interval tick's request is unresolved
C33_Witness ==
    /\ dashboard.jobId # NoJob
    /\ dashboard.status = StatusOf(dashboard.jobId, "failed")
    /\ ~dashboard.polling /\ dashboard.timer = NoJob
    /\ dashPollsInFlight[dashboard.jobId] > 0

(* C34: in LiveDashboard, the step that handles a rejected getStatus leaves  *)
(* polling and the interval as they were.                                    *)
C34_DashPollFailureIsTransient ==
    [][\A j \in Jobs : DashPollFail(j) =>
          (dashboard'.polling = dashboard.polling /\ dashboard'.timer = dashboard.timer)]_vars

(* C35: LiveDashboard issues aggregate at most once for a job id, and only   *)
(* from a state whose stored poll result has ready_for_aggregation true.     *)
C35_DashAggregateAtMostOnce ==
    /\ [](\A j \in Jobs : dashAggCalls[j] <= 1)
    /\ [][\A j \in Jobs : dashAggCalls'[j] > dashAggCalls[j] =>
             (~dashboard.status.null /\ dashboard.status.ready_for_aggregation)]_vars

\* the second half of C35 alone
C35_DashAggregateWhenReady ==
    [][\A j \in Jobs : dashAggCalls'[j] > dashAggCalls[j] =>
          (~dashboard.status.null /\ dashboard.status.ready_for_aggregation)]_vars

(* C36: every ingest request sent sets exactly one of url and text, and its  *)
(* value is not empty or blank; what ProposalInput sends is {url} with the   *)
(* trimmed input when that starts with "http", and {text} with it otherwise. *)
IsBlank(s) == \A i \in 1..Len(s) : s[i] = " "

C36_IngestRequestShape ==
    /\ [](sentRequest.sent => (sentRequest.url = Unset) # (sentRequest.text = Unset))
    /\ [](sentRequest.sent =>
             ~IsBlank(IF sentRequest.url # Unset THEN sentRequest.url ELSE sentRequest.text))
    /\ [][(input # <<>> /\ sentRequest' # sentRequest) =>
             /\ ~IsBlank(input)
             /\ LET trimmed == Trim(input)
                    isUrl   == Len(trimmed) >= 4 /\ [i \in 1..4 |-> trimmed[i]] = Http
                IN  sentRequest' = [url  |-> IF isUrl THEN trimmed ELSE Unset,
                                    text |-> IF isUrl THEN Unset ELSE trimmed,
                                    sent |-> TRUE]]_vars

\* what the claim says of ProposalInput alone
C36_ProposalInputRequest ==
    /\ [](input # <<>> =>
             (sentRequest.sent =>
                 /\ (sentRequest.url = Unset) # (sentRequest.text = Unset)
                 /\ ~IsBlank(IF sentRequest.url # Unset THEN sentRequest.url
                             ELSE sentRequest.text)))
    /\ [][(input # <<>> /\ sentRequest' # sentRequest) =>
             /\ ~IsBlank(input)
             /\ LET trimmed == Trim(input)
                    isUrl   == Len(trimmed) >= 4 /\ [i \in 1..4 |-> trimmed[i]] = Http
                IN  sentRequest' = [url  |-> IF isUrl THEN trimmed ELSE Unset,
                                    text |-> IF isUrl THEN Unset ELSE trimmed,
                                    sent |-> TRUE]]_vars

(* C37: the step in which the attest request of the mounted evidence panel   *)
(* is rejected leaves the attestation absent, sets the panel's error, clears *)
(* attesting so that the attest button is enabled, and leaves the stage      *)
(* complete and the evidence bundle as it was.                               *)
C37_AttestFailureRecovers ==
    [][\A j \in JobProps : AttestFail(j, TRUE) =>
          /\ attestation' = NoAttestation
          /\ attestError' = "Attestation failed"
          /\ ~attesting'
          /\ ~AttestDisabled(attesting', attestation')
          /\ stage = "complete" /\ stage' = "complete"
          /\ evidenceBundle' = evidenceBundle]_vars

\* after a rejected attest: error shown, button enabled, nothing attested
C37_Witness ==
    /\ PanelMounted(stage, evidenceBundle)
    /\ attestError = "Attestation failed"
    /\ ~AttestDisabled(attesting, attestation)
    /\ attested = {}

(* C38: while the same job is tracked, a claim whose status is validating    *)
(* is not pending in the next state.                                         *)
C38_ValidatingStays ==
    [][\A c \in ClaimIds :
          (/\ jobId # NoJob /\ jobId' = jobId
           /\ c \in DOMAIN getClaimStatuses /\ c \in DOMAIN getClaimStatuses'
           /\ getClaimStatuses[c] = "validating")
              => getClaimStatuses'[c] # "pending"]_vars

====
